---- MODULE Spec2Model ----
(***************************************************************************)
(* Model of the rx-player text cue buffer (TextBufferManager), of the      *)
(* SegmentTemplate index helpers (getSegments) and of the SegmentBase      *)
(* index helpers (_addSegmentInfos), and of the choice of the index        *)
(* helpers by the type of an index (getRightIndexHelpers), and of the      *)
(* source buffer of native text tracks (NativeTextTrackSourceBuffer).      *)
(*                                                                         *)
(* Times of the text buffer are counted in ticks of 1/8 second: every      *)
(* such value is a double the JavaScript engine represents exactly, so     *)
(* the comparisons of the code are modelled without rounding.              *)
(***************************************************************************)
EXTENDS Integers, Sequences, FiniteSets, TLC

VARIABLES cuesBuffer, call, ninserts, tindex, twindow, segments,
          bindex, bcall, added, features, lookups, track, buffered, ncall

vars == <<cuesBuffer, call, ninserts, tindex, twindow, segments,
          bindex, bcall, added, features, lookups, track, buffered, ncall>>

bufferVars == <<cuesBuffer, call, ninserts>>
templateVars == <<tindex, twindow, segments>>
baseVars == <<bindex, bcall, added>>
resolverVars == <<features, lookups>>
nativeVars == <<track, buffered, ncall>>

(***************************************************************************)
(* Bounds of the model.                                                    *)
(***************************************************************************)
\* Spec: largest time, in ticks of 1/8 s, given to insert and get
MaxTime == 5
\* Spec: number of insert calls with new cues
MaxInserts == 3
\* SpecDeep: largest time, in ticks of 1/8 s, given to insert and get
MaxTimeDeep == 3
\* SpecDeep: number of insert calls with new cues
MaxInsertsDeep == 5

\* SpecWide: largest time, in quarters of a second, given to insert and get
MaxTimeWide == 5
\* SpecWide: number of insert calls with new cues
MaxInsertsWide == 4

\* SpecTemplate: largest duration of a SegmentTemplate index
MaxDuration == 4
\* SpecTemplate: largest startNumber of a SegmentTemplate index
MaxStartNumber == 2
\* SpecTemplate: largest bound of the window given to getSegments
MaxWindow == 10
\* SpecBase: largest timescale of an index and of a segmentInfos
MaxTimescale == 2
\* SpecBase: _addSegmentInfos is called while the timeline is shorter
MaxTimeline == 2
\* SpecResolver: number of calls of getRightIndexHelpers
MaxLookups == 2
\* SpecNative: largest start and end, in units of the timescale, of _append
MaxNativeTime == 1
\* SpecNative: largest number of cues of the text track
MaxTrackCues == 2

Times == 0..MaxTime
TimesDeep == 0..MaxTimeDeep
\* the times of SpecWide, in ticks of 1/8 s
TimesWide == {2 * q : q \in 0..MaxTimeWide}

Abs(x) == IF x < 0 THEN -x ELSE x

(***************************************************************************)
(* TextBufferManager                                                       *)
(***************************************************************************)

\* MAX_DELTA_BUFFER_TIME = 0.2 s, in tenths of a second
MAX_DELTA_BUFFER_TIME == 2

\* |a - b| <= 0.2 s for a, b in ticks of 1/8 s: |a - b| / 8 <= 2 / 10
areNearlyEqual(a, b) == Abs(a - b) * 10 <= MAX_DELTA_BUFFER_TIME * 8

\* the value of a JavaScript `return;`
undefined == [start |-> -1, end |-> -1, element |-> -1]

\* loop of getCueInCues from index i
RECURSIVE getCueInCuesFrom(_, _, _)
getCueInCuesFrom(currentTime, cues, i) ==
  IF i > Len(cues) THEN undefined
  ELSE IF currentTime < cues[i].end
       THEN (IF currentTime >= cues[i].start THEN cues[i] ELSE undefined)
       ELSE getCueInCuesFrom(currentTime, cues, i + 1)

getCueInCues(currentTime, cues) == getCueInCuesFrom(currentTime, cues, 1)

\* cues.splice(i, cues.length - i) at the first i with time > cues[i].start
removeInCuesAfter(cues, time) ==
  LET hits == {i \in 1..Len(cues) : time > cues[i].start}
  IN IF hits = {} THEN cues
     ELSE LET i == CHOOSE k \in hits : \A j \in hits : k <= j
          IN SubSeq(cues, 1, i - 1)

\* a removeInCuesBefore cutting the cue it keeps across `time`
removeInCuesBefore_Clip(cues, time) ==
  LET hits == {i \in 1..Len(cues) : time > cues[i].start}
  IN IF hits = {} THEN cues
     ELSE LET i == CHOOSE k \in hits : \A j \in hits : k >= j
          IN <<[cues[i] EXCEPT !.start = time]>> \o SubSeq(cues, i + 1, Len(cues))

\* cues.splice(0, i) at the last i with time > cues[i].start
removeInCuesBefore(cues, time) ==
  LET hits == {i \in 1..Len(cues) : time > cues[i].start}
  IN IF hits = {} THEN cues
     ELSE LET i == CHOOSE k \in hits : \A j \in hits : k >= j
          IN SubSeq(cues, i, Len(cues))

\* removeInCuesBefore(cuesInfos, end) of line 205: the argument is the group
\* object, whose length is undefined, so the loop body never runs
removeInCuesBeforeOfGroup(cuesInfos, time) == cuesInfos

\* TextBufferManager.get
RECURSIVE getFrom(_, _, _)
getFrom(buf, time, i) ==
  IF i > Len(buf) THEN undefined
  ELSE IF time < buf[i].end
       THEN (IF time >= buf[i].start
             THEN getCueInCues(time, buf[i].cues)
             ELSE undefined)
       ELSE getFrom(buf, time, i + 1)

get(buf, time) == getFrom(buf, time, 1)

\* arr.splice(i, 0, x), i counted from 1
SpliceIn(arr, i, x) == SubSeq(arr, 1, i - 1) \o <<x>> \o SubSeq(arr, i, Len(arr))

\* arr.splice(i, 1), i counted from 1
SpliceOut(arr, i) == SubSeq(arr, 1, i - 1) \o SubSeq(arr, i + 1, Len(arr))

\* FirstAfter with the test start <= cuesInfos.end
FirstAfter_Inclusive(buf, start) ==
  LET hits == {i \in 1..Len(buf) : start <= buf[i].end}
  IN IF hits = {} THEN 0 ELSE CHOOSE k \in hits : \A j \in hits : k <= j

\* first index i with start < cuesBuffer[i].end, 0 when the loop ends
FirstAfter(buf, start) ==
  LET hits == {i \in 1..Len(buf) : start < buf[i].end}
  IN IF hits = {} THEN 0 ELSE CHOOSE k \in hits : \A j \in hits : k <= j

\* a loop which also stops at a group ending within the tolerance of end
RECURSIVE DropCovered_UntilNear(_, _, _)
DropCovered_UntilNear(buf, i, end) ==
  LET b == SpliceOut(buf, i)
  IN IF i <= Len(b) /\ end > b[i].end /\ ~areNearlyEqual(end, b[i].end)
     THEN DropCovered_UntilNear(b, i, end)
     ELSE b

\* do { cuesBuffer.splice(i, 1); cuesInfos = cuesBuffer[i]; }
\* while (cuesInfos && end > cuesInfos.end)
RECURSIVE DropCovered(_, _, _)
DropCovered(buf, i, end) ==
  LET b == SpliceOut(buf, i)
  IN IF i <= Len(b) /\ end > b[i].end THEN DropCovered(b, i, end) ELSE b

\* InsertNearStart adding the new group before an exactly equal one instead
\* of replacing it
InsertNearStart_Splice(buf, i, new) ==
  LET cuesInfos == buf[i]
      end == new.end
  IN IF areNearlyEqual(end, cuesInfos.end)
     THEN [buf |-> SpliceIn(buf, i, new), branch |-> "same", at |-> i]
     ELSE IF end < cuesInfos.end
     THEN LET moved == [cuesInfos EXCEPT !.start = end]
          IN [buf |-> SpliceIn([buf EXCEPT ![i] = moved], i, new),
              branch |-> "shorter", at |-> i]
     ELSE LET b == DropCovered(buf, i, end)
          IN IF i > Len(b)
             THEN [buf |-> Append(b, new), branch |-> "beyondLast", at |-> i]
             ELSE IF areNearlyEqual(end, b[i].end)
             THEN [buf |-> [b EXCEPT ![i] = new],
                   branch |-> "beyondSame", at |-> i]
             ELSE LET moved == [b[i] EXCEPT
                                  !.cues = removeInCuesBefore(b[i].cues, end),
                                  !.start = end]
                  IN [buf |-> SpliceIn([b EXCEPT ![i] = moved], i, new),
                      branch |-> "beyondOverlap", at |-> i]

\* lines 186-233: start nearly equal to cuesInfos.start
InsertNearStart(buf, i, new) ==
  LET cuesInfos == buf[i]
      end == new.end
  IN IF areNearlyEqual(end, cuesInfos.end)
     THEN [buf |-> [buf EXCEPT ![i] = new], branch |-> "same", at |-> i]
     ELSE IF end < cuesInfos.end
     THEN LET trimmed == removeInCuesBeforeOfGroup(cuesInfos, end)
              moved == [trimmed EXCEPT !.start = end]
          IN [buf |-> SpliceIn([buf EXCEPT ![i] = moved], i, new),
              branch |-> "shorter", at |-> i]
     ELSE LET b == DropCovered(buf, i, end)
          IN IF i > Len(b)
             THEN [buf |-> Append(b, new), branch |-> "beyondLast", at |-> i]
             ELSE IF areNearlyEqual(end, b[i].end)
             THEN [buf |-> [b EXCEPT ![i] = new],
                   branch |-> "beyondSame", at |-> i]
             ELSE LET moved == [b[i] EXCEPT
                                  !.cues = removeInCuesBefore(b[i].cues, end),
                                  !.start = end]
                  IN [buf |-> SpliceIn([b EXCEPT ![i] = moved], i, new),
                      branch |-> "beyondOverlap", at |-> i]

\* lines 234-268: start before cuesInfos.start
InsertBefore(buf, i, new) ==
  LET cuesInfos == buf[i]
      end == new.end
  IN IF end < cuesInfos.start
     THEN [buf |-> SpliceIn(buf, i, new), branch |-> "strictlyBefore", at |-> i]
     ELSE IF areNearlyEqual(end, cuesInfos.start)
     THEN LET moved == [cuesInfos EXCEPT !.start = end]
          IN [buf |-> SpliceIn([buf EXCEPT ![i] = moved], i, new),
              branch |-> "justBefore", at |-> i]
     ELSE LET moved == [cuesInfos EXCEPT
                          !.cues = removeInCuesBefore(cuesInfos.cues, end),
                          !.start = end]
          IN [buf |-> SpliceIn([buf EXCEPT ![i] = moved], i, new),
              branch |-> "overlapBefore", at |-> i]

\* InsertAfter without the assignment cuesInfos.end = start
InsertAfter_KeepsEnd(buf, i, new) ==
  LET cuesInfos == buf[i]
      end == new.end
  IN IF end > cuesInfos.end \/ areNearlyEqual(end, cuesInfos.end)
     THEN LET moved == [cuesInfos EXCEPT
                          !.cues = removeInCuesAfter(cuesInfos.cues, new.start)]
          IN [buf |-> SpliceIn([buf EXCEPT ![i] = moved], i + 1, new),
              branch |-> "overlapAfter", at |-> i + 1]
     ELSE [buf |-> [buf EXCEPT ![i] = new], branch |-> "inside", at |-> i]

\* InsertAfter keeping the head of the current group in the contained case
InsertAfter_KeepsHead(buf, i, new) ==
  LET cuesInfos == buf[i]
      moved == [cuesInfos EXCEPT
                  !.cues = removeInCuesAfter(cuesInfos.cues, new.start),
                  !.end = new.start]
  IN [buf |-> SpliceIn([buf EXCEPT ![i] = moved], i + 1, new),
      branch |-> IF new.end > cuesInfos.end
                    \/ areNearlyEqual(new.end, cuesInfos.end)
                 THEN "overlapAfter" ELSE "inside",
      at |-> i + 1]

\* lines 269-300: start after cuesInfos.start
InsertAfter(buf, i, new) ==
  LET cuesInfos == buf[i]
      end == new.end
  IN IF end > cuesInfos.end \/ areNearlyEqual(end, cuesInfos.end)
     THEN LET moved == [cuesInfos EXCEPT
                          !.cues = removeInCuesAfter(cuesInfos.cues, new.start),
                          !.end = new.start]
          IN [buf |-> SpliceIn([buf EXCEPT ![i] = moved], i + 1, new),
              branch |-> "overlapAfter", at |-> i + 1]
     ELSE [buf |-> [buf EXCEPT ![i] = new], branch |-> "inside", at |-> i]

\* TextBufferManager.insert: the new _cuesBuffer, the branch taken and the
\* index at which the new group is stored
insert(buf, cues, start, end) ==
  LET new == [start |-> start, end |-> end, cues |-> cues]
      i == FirstAfter(buf, start)
  IN IF i = 0
     THEN [buf |-> Append(buf, new), branch |-> "push", at |-> Len(buf) + 1]
     ELSE IF areNearlyEqual(start, buf[i].start) THEN InsertNearStart(buf, i, new)
     ELSE IF start < buf[i].start THEN InsertBefore(buf, i, new)
     ELSE InsertAfter(buf, i, new)

(***************************************************************************)
(* The cue arrays given to insert: sorted, non-overlapping cues inside     *)
(* [start, end), each cue a new object (element n for the n-th insert).    *)
(***************************************************************************)
Cue(s, e, n) == [start |-> s, end |-> e, element |-> n]

CuesOf(s, e, n) ==
  {<<Cue(s, e, n)>>} \cup
  (IF e - s >= 2 THEN {<<Cue(s, s + 1, n), Cue(e - 1, e, n)>>} ELSE {})

\* `before` is cuesBuffer.length when insert was entered
NoCall == [kind |-> "none", start |-> 0, end |-> 0, cues |-> <<>>,
           branch |-> "", at |-> 0, before |-> 0, cue |-> undefined]

\* insert(cues, start, end) with a newly parsed cue array
Insert(cues, start, end) ==
  /\ start < end
  /\ LET r == insert(cuesBuffer, cues, start, end)
     IN /\ cuesBuffer' = r.buf
        /\ call' = [NoCall EXCEPT !.kind = "insert", !.start = start,
                      !.end = end, !.cues = cues, !.branch = r.branch,
                      !.at = r.at, !.before = Len(cuesBuffer)]
  /\ ninserts' = ninserts + 1
  /\ UNCHANGED <<templateVars, baseVars, resolverVars, nativeVars>>

\* the same insert(cues, start, end) called a second time in a row
InsertAgain ==
  /\ call.kind = "insert"
  /\ LET r == insert(cuesBuffer, call.cues, call.start, call.end)
     IN /\ cuesBuffer' = r.buf
        /\ call' = [call EXCEPT !.kind = "again", !.branch = r.branch,
                      !.at = r.at, !.before = Len(cuesBuffer)]
  /\ UNCHANGED <<ninserts, templateVars, baseVars, resolverVars,
               nativeVars>>

\* get(time)
Get(time) ==
  /\ call.kind \in {"insert", "again"}
  /\ call' = [NoCall EXCEPT !.kind = "get", !.cue = get(cuesBuffer, time)]
  /\ UNCHANGED <<cuesBuffer, ninserts, templateVars, baseVars,
               resolverVars, nativeVars>>

InitBuffer ==
  /\ cuesBuffer = <<>>
  /\ call = NoCall
  /\ ninserts = 0

(***************************************************************************)
(* SegmentTemplate index helpers                                           *)
(***************************************************************************)

\* normalizeRange of helpers.js: the window in the timescale of the index
normalizeRange(index, up, to) ==
  [up |-> up * index.timescale, to |-> to * index.timescale]

\* new Segment(args) of one step of the loop of getSegments
TemplateSegment(repId, index, time) ==
  LET number == (time \div index.duration) +
                  (IF index.hasStartNumber THEN index.startNumber ELSE 1)
  IN [id |-> <<repId, number>>,
      number |-> number,
      time |-> number * index.duration,
      init |-> FALSE,
      duration |-> index.duration,
      timescale |-> index.timescale]

\* for (let time = up; time <= to; time += duration) segments.push(...)
RECURSIVE TemplateLoop(_, _, _, _)
TemplateLoop(repId, index, time, to) ==
  IF time <= to
  THEN <<TemplateSegment(repId, index, time)>> \o
         TemplateLoop(repId, index, time + index.duration, to)
  ELSE <<>>

\* a getSegments testing its bound after the step: at least one segment
getSegments_AtLeastOne(repId, index, up, to) ==
  LET r == normalizeRange(index, up, to)
  IN <<TemplateSegment(repId, index, r.up)>> \o
       TemplateLoop(repId, index, r.up + index.duration, r.to)

\* template getSegments(repId, index, _up, _to)
getSegments(repId, index, up, to) ==
  LET r == normalizeRange(index, up, to)
  IN TemplateLoop(repId, index, r.up, r.to)

TemplateIndexes ==
  [duration : 1..MaxDuration, timescale : {1, 2}, hasStartNumber : BOOLEAN,
   startNumber : 0..MaxStartNumber]

NoWindow == [called |-> FALSE, up |-> 0, to |-> 0]

GetSegments(up, to) ==
  /\ twindow' = [called |-> TRUE, up |-> up, to |-> to]
  /\ segments' = getSegments("rep1", tindex, up, to)
  /\ UNCHANGED <<tindex, bufferVars, baseVars, resolverVars, nativeVars>>

InitTemplate ==
  /\ tindex = [duration |-> 1, timescale |-> 1, hasStartNumber |-> FALSE,
               startNumber |-> 0]
  /\ twindow = NoWindow
  /\ segments = <<>>

(***************************************************************************)
(* SegmentBase index helpers                                               *)
(***************************************************************************)
RECURSIVE GCD(_, _)
GCD(a, b) == IF b = 0 THEN a ELSE GCD(b, a % b)

\* the number n / d, n >= 0 and d > 0, in lowest terms
Frac(n, d) == LET g == GCD(n, d) IN <<n \div g, d \div g>>

\* (x / segmentInfos.timescale) * timescale with the index at 1 / 1 of it
RescaleInverted(x, from, timescale) ==
  LET q == Frac(x, timescale) IN Frac(q[1] * from, q[2])

\* (x / segmentInfos.timescale) * timescale
Rescale(x, from, timescale) ==
  LET q == Frac(x, from) IN Frac(q[1] * timescale, q[2])

\* the element _addSegmentInfos pushes
BaseElement(index, segmentInfos) ==
  IF segmentInfos.timescale # index.timescale
  THEN [ts |-> Rescale(segmentInfos.time, segmentInfos.timescale, index.timescale),
        d |-> Rescale(segmentInfos.duration, segmentInfos.timescale,
                      index.timescale),
        r |-> segmentInfos.count,
        range |-> segmentInfos.range]
  ELSE [ts |-> Frac(segmentInfos.time, 1),
        d |-> Frac(segmentInfos.duration, 1),
        r |-> segmentInfos.count,
        range |-> segmentInfos.range]

SegTimes == {0, 6}
SegDurations == {3, 4}
SegRanges == {<<>>, <<0, 99>>}

SegmentInfos ==
  [time : SegTimes, duration : SegDurations, timescale : 1..MaxTimescale,
   count : {0, 1}, range : SegRanges]

NoSegmentInfos ==
  [time |-> 0, duration |-> 0, timescale |-> 0, count |-> 0, range |-> <<>>]

\* base _addSegmentInfos(index, segmentInfos)
AddSegmentInfos(segmentInfos) ==
  /\ Len(bindex.timeline) < MaxTimeline
  /\ bindex' = [bindex EXCEPT
                  !.timeline = Append(@, BaseElement(bindex, segmentInfos))]
  /\ bcall' = segmentInfos
  /\ added' = TRUE
  /\ UNCHANGED <<bufferVars, templateVars, resolverVars, nativeVars>>

InitBase ==
  /\ bindex = [timescale |-> 1, timeline |-> <<>>]
  /\ bcall = NoSegmentInfos
  /\ added = FALSE

(***************************************************************************)
(* Choice of the index helpers (getRightIndexHelpers)                      *)
(***************************************************************************)

\* the names under which the build registers helpers in `indexes`
RegisteredTypes(f) ==
  (IF f.SMOOTH THEN {"smooth"} ELSE {}) \cup
  (IF f.DASH THEN {"timeline", "template", "list", "base"} ELSE {})

\* `indexes` is a plain object: it also answers to the names it inherits
InheritedNames == {"constructor"}

\* the values an indexType takes: the five variants, a name no build
\* registers, and a name every plain object inherits
IndexTypes ==
  {"smooth", "timeline", "template", "list", "base", "metaplaylist"} \cup
  InheritedNames

\* what a call returns for a name of which `indexes` has no property
NoHelpers == [threw |-> "", helpers |-> "undefined"]

\* a resolver answering with the SegmentBase helpers when it has no entry
getRightIndexHelpers_Default(f, index) ==
  IF index.indexType \in RegisteredTypes(f)
    THEN [threw |-> "", helpers |-> index.indexType]
    ELSE [threw |-> "", helpers |-> "base"]

\* return indexes[index.indexType]: the helpers, named by their variant,
\* the inherited member, or undefined; no path of the function throws
getRightIndexHelpers(f, index) ==
  IF index.indexType \in RegisteredTypes(f)
    THEN [threw |-> "", helpers |-> index.indexType]
    ELSE IF index.indexType \in InheritedNames
      THEN [threw |-> "", helpers |-> "Object"]
      ELSE NoHelpers

\* one call getRightIndexHelpers(index), its outcome kept by the caller
GetRightIndexHelpers(indexType) ==
  /\ Len(lookups) < MaxLookups
  /\ LET r == getRightIndexHelpers(features, [indexType |-> indexType])
     IN lookups' = Append(lookups, [indexType |-> indexType,
                                    threw |-> r.threw,
                                    helpers |-> r.helpers])
  /\ UNCHANGED <<features, bufferVars, templateVars, baseVars, nativeVars>>

\* a build with both features
InitResolver ==
  /\ features = [SMOOTH |-> TRUE, DASH |-> TRUE]
  /\ lookups = <<>>

(***************************************************************************)
(* NativeTextTrackSourceBuffer. The times of the cues and of the buffered  *)
(* ranges are counted in halves of a second; `buffered` is the set of the  *)
(* half seconds [k / 2, (k + 1) / 2) its ranges cover.                     *)
(***************************************************************************)

\* x / timescale, in halves of a second (timescale 1 or 2)
HalfSeconds(x, timescale) == (x * 2) \div timescale

\* +Infinity: a time beyond every time of the model
Infinity == 1000

\* the test of _append with < in place of <=
Degenerate_Strict(start, end, endKind) ==
  CASE endKind = "number" -> end - start < 0
    [] endKind = "null" -> 0 - start < 0
    [] OTHER -> FALSE

\* timescaledEnd - timescaledStart <= 0: an undefined end gives NaN and a
\* false test, a null end counts as 0
Degenerate(start, end, endKind) ==
  CASE endKind = "number" -> end - start <= 0
    [] endKind = "null" -> 0 - start <= 0
    [] OTHER -> FALSE

\* track.addCue(cue): the cues of a text track are kept in text track cue
\* order, by start time, then latest end first, then in order of addition
AddCue(cues, cue) ==
  LET ahead == {i \in 1..Len(cues) :
                  \/ cues[i].startTime < cue.startTime
                  \/ /\ cues[i].startTime = cue.startTime
                     /\ cues[i].endTime >= cue.endTime}
  IN SpliceIn(cues, Cardinality(ahead) + 1, cue)

\* cues.forEach((cue) => this._track.addCue(cue))
RECURSIVE AddCues(_, _)
AddCues(cues, new) ==
  IF new = <<>> THEN cues ELSE AddCues(AddCue(cues, Head(new)), Tail(new))

\* this.buffered.insert(start, end)
BufferedInsert(ranges, start, end) == ranges \cup (start..(end - 1))

\* this.buffered.remove(from, to)
BufferedRemove(ranges, from, to) == {k \in ranges : ~(from <= k /\ k < to)}

\* _remove(from, to); this._track is null once _abort has run
remove(sb, from, to) ==
  IF ~sb.track.live
  THEN [track |-> sb.track, buffered |-> sb.buffered, threw |-> TRUE]
  ELSE [track |-> [sb.track EXCEPT !.cues =
                     SelectSeq(@, LAMBDA cue :
                       ~(/\ cue.startTime >= from
                         /\ cue.startTime <= to
                         /\ cue.endTime <= to))],
        buffered |-> BufferedRemove(sb.buffered, from, to),
        threw |-> FALSE]

\* _append(data), cues being what parseTextTrackToCues makes of data.data
append(sb, data, cues) ==
  LET startTime == HalfSeconds(data.start, data.timescale)
      hasEnd == data.endKind = "number"
      endTime == HalfSeconds(data.end, data.timescale)
      same == [track |-> sb.track, buffered |-> sb.buffered, threw |-> FALSE]
  IN IF Degenerate(data.start, data.end, data.endKind) THEN same
     ELSE IF Len(cues) > 0
     THEN IF ~sb.track.live THEN [same EXCEPT !.threw = TRUE]
          ELSE LET currentCues == sb.track.cues
                   cleaned ==
                     IF /\ Len(currentCues) > 0
                        /\ cues[1].startTime <
                             currentCues[Len(currentCues)].startTime
                     THEN remove(sb, cues[1].startTime, Infinity)
                     ELSE same
               IN [track |-> [cleaned.track EXCEPT !.cues = AddCues(@, cues)],
                   buffered |->
                     BufferedInsert(cleaned.buffered, startTime,
                                    IF hasEnd THEN endTime
                                    ELSE cues[Len(cues)].endTime),
                   threw |-> FALSE]
     ELSE IF hasEnd
     THEN [same EXCEPT !.buffered = BufferedInsert(@, startTime, endTime)]
     ELSE same

\* a cue made by the parser, two halves of a second long
NativeCue(s) == [startTime |-> s, endTime |-> s + 2]

\* the arrays parseTextTrackToCues returns: no cue, one cue, two cues
ParsedCues == {<<>>, <<NativeCue(0)>>, <<NativeCue(0), NativeCue(2)>>}

\* the data given to _append
AppendData ==
  [start : 0..MaxNativeTime, end : 0..MaxNativeTime,
   endKind : {"number", "undefined", "null"}, timescale : {1, 2}]

NoNativeCall ==
  [kind |-> "none", start |-> 0, end |-> 0, endKind |-> "undefined",
   parsed |-> 0, threw |-> FALSE]

\* one call _append(data)
NativeAppend(data, cues) ==
  LET r == append([track |-> track, buffered |-> buffered], data, cues)
  IN /\ Len(r.track.cues) <= MaxTrackCues
     /\ track' = r.track
     /\ buffered' = r.buffered
     /\ ncall' = [kind |-> "append", start |-> data.start, end |-> data.end,
                  endKind |-> data.endKind, parsed |-> Len(cues),
                  threw |-> r.threw]
     /\ UNCHANGED <<bufferVars, templateVars, baseVars, resolverVars>>

\* one call _remove(from, to)
NativeRemove(from, to) ==
  LET r == remove([track |-> track, buffered |-> buffered], from, to)
  IN /\ track' = r.track
     /\ buffered' = r.buffered
     /\ ncall' = [NoNativeCall EXCEPT !.kind = "remove", !.threw = r.threw]
     /\ UNCHANGED <<bufferVars, templateVars, baseVars, resolverVars>>

\* _abort(): the track is disabled and forgotten
NativeAbort ==
  /\ track' = [track EXCEPT !.live = FALSE]
  /\ ncall' = [NoNativeCall EXCEPT !.kind = "abort"]
  /\ UNCHANGED <<buffered, bufferVars, templateVars, baseVars, resolverVars>>

\* after the constructor: an empty track, nothing buffered
InitNative ==
  /\ track = [live |-> TRUE, cues |-> <<>>]
  /\ buffered = {}
  /\ ncall = NoNativeCall

Init ==
  InitBuffer /\ InitTemplate /\ InitBase /\ InitResolver /\ InitNative

Next ==
  \/ /\ ninserts < MaxInserts
     /\ \E start \in Times, end \in Times :
          \E cues \in CuesOf(start, end, ninserts + 1) : Insert(cues, start, end)
  \/ InsertAgain
  \/ \E time \in Times : Get(time)

Spec == Init /\ [][Next]_vars

\* the same operations, over fewer times and more calls
NextDeep ==
  \/ /\ ninserts < MaxInsertsDeep
     /\ \E start \in TimesDeep, end \in TimesDeep :
          \E cues \in CuesOf(start, end, ninserts + 1) : Insert(cues, start, end)
  \/ InsertAgain
  \/ \E time \in TimesDeep : Get(time)

SpecDeep == Init /\ [][NextDeep]_vars

\* the same operations, over times a quarter of a second apart
NextWide ==
  \/ /\ ninserts < MaxInsertsWide
     /\ \E start \in TimesWide, end \in TimesWide :
          \E cues \in CuesOf(start, end, ninserts + 1) : Insert(cues, start, end)
  \/ InsertAgain
  \/ \E time \in TimesWide : Get(time)

SpecWide == Init /\ [][NextWide]_vars


InitTemplateAny ==
  /\ InitBuffer /\ InitBase /\ InitResolver /\ InitNative
  /\ tindex \in TemplateIndexes
  /\ twindow = NoWindow
  /\ segments = <<>>

NextTemplate == \E up \in 0..MaxWindow, to \in 0..MaxWindow : GetSegments(up, to)

SpecTemplate == InitTemplateAny /\ [][NextTemplate]_vars

InitBaseAny ==
  /\ InitBuffer /\ InitTemplate /\ InitResolver /\ InitNative
  /\ bindex \in [timescale : 1..MaxTimescale, timeline : {<<>>}]
  /\ bcall = NoSegmentInfos
  /\ added = FALSE

NextBase == \E segmentInfos \in SegmentInfos : AddSegmentInfos(segmentInfos)

SpecBase == InitBaseAny /\ [][NextBase]_vars

\* every build: each of the two features present or absent
InitResolverAny ==
  /\ InitBuffer /\ InitTemplate /\ InitBase /\ InitNative
  /\ features \in [SMOOTH : BOOLEAN, DASH : BOOLEAN]
  /\ lookups = <<>>

NextResolver == \E indexType \in IndexTypes : GetRightIndexHelpers(indexType)

SpecResolver == InitResolverAny /\ [][NextResolver]_vars

NextNative ==
  \/ \E data \in AppendData, cues \in ParsedCues : NativeAppend(data, cues)
  \/ \E from \in 0..(2 * MaxNativeTime), to \in 0..(2 * MaxNativeTime) :
       NativeRemove(from, to)
  \/ NativeAbort

SpecNative == Init /\ [][NextNative]_vars

(***************************************************************************)
(* Properties of the text buffer.                                          *)
(***************************************************************************)
NewGroup(c) == [start |-> c.start, end |-> c.end, cues |-> c.cues]

Inserted == call.kind \in {"insert", "again"}

\* C1: no two adjacent groups of _cuesBuffer overlap: g_i.end <= g_{i+1}.start
C1_NonOverlap ==
  \A i \in 1..(Len(cuesBuffer) - 1) : cuesBuffer[i].end <= cuesBuffer[i + 1].start

\* C2: the groups of _cuesBuffer are sorted ascending by start
C2_SortedByStart ==
  \A i \in 1..(Len(cuesBuffer) - 1) :
    cuesBuffer[i].start <= cuesBuffer[i + 1].start

\* the cue of a sorted, non-overlapping cue list whose [start, end) holds t
CueCovering(cues, t) ==
  LET hits == {k \in 1..Len(cues) : cues[k].start <= t /\ t < cues[k].end}
  IN IF hits = {} THEN undefined
     ELSE cues[CHOOSE k \in hits : \A j \in hits : k <= j]

\* C3: right after insert(cues, start, end), get(t) for start <= t < end is
\* the cue of the inserted cues covering t, or undefined when none does
C3_NewSupersedes ==
  Inserted =>
    \A t \in Times :
      (call.start <= t /\ t < call.end) =>
        get(cuesBuffer, t) = CueCovering(call.cues, t)

C3_Witness ==
  /\ call.kind = "insert"
  /\ call.branch = "overlapAfter"
  /\ \E t \in Times : call.start <= t /\ t < call.end
                        /\ get(cuesBuffer, t) = undefined
  /\ \E t \in Times : call.start <= t /\ t < call.end
                        /\ get(cuesBuffer, t) # undefined

\* the indexes of the groups whose [start, end) holds t
Covering(buf, t) == {i \in 1..Len(buf) : buf[i].start <= t /\ t < buf[i].end}

\* C4: get(t) is the in-group lookup in the first group whose [start, end)
\* holds t, and undefined when no group holds t
C4_GetFirstCovering ==
  \A t \in Times :
    LET cov == Covering(cuesBuffer, t)
    IN IF cov = {} THEN get(cuesBuffer, t) = undefined
       ELSE get(cuesBuffer, t) =
              CueCovering(cuesBuffer[CHOOSE i \in cov : \A j \in cov : i <= j].cues, t)

\* C5: an insert whose start and end are both nearly equal to those of a
\* stored group g replaces g in place and leaves every other group as it was
C5_ToleranceSnap ==
  [][\A j \in 1..Len(cuesBuffer) :
       (/\ call'.kind = "insert"
        /\ areNearlyEqual(call'.start, cuesBuffer[j].start)
        /\ areNearlyEqual(call'.end, cuesBuffer[j].end))
       => cuesBuffer' = [cuesBuffer EXCEPT ![j] = NewGroup(call')]]_vars

\* C6: a second identical insert changes no get(t), no group count and no
\* group boundary
C6_Idempotent ==
  [][call'.kind = "again" =>
       /\ \A t \in Times : get(cuesBuffer', t) = get(cuesBuffer, t)
       /\ Len(cuesBuffer') = Len(cuesBuffer)
       /\ \A i \in 1..Len(cuesBuffer) :
            /\ cuesBuffer'[i].start = cuesBuffer[i].start
            /\ cuesBuffer'[i].end = cuesBuffer[i].end]_vars

C6_Witness ==
  /\ call.kind = "again"
  /\ Len(cuesBuffer) >= 2
  /\ \E t \in Times : get(cuesBuffer, t) \in {call.cues[k] : k \in 1..Len(call.cues)}

\* C7: when every stored group ends at or before start, insert appends the
\* new group and leaves the stored groups as they were
C7_Append ==
  [][(/\ call'.kind = "insert"
      /\ \A j \in 1..Len(cuesBuffer) : cuesBuffer[j].end <= call'.start)
     => cuesBuffer' = Append(cuesBuffer, NewGroup(call'))]_vars

C7_Witness ==
  /\ call.kind = "insert"
  /\ call.branch = "push"
  /\ call.at = 2
  /\ Len(cuesBuffer) = 2
  /\ cuesBuffer[1].end = call.start

\* the cue objects of a group
CuesIn(g) == {g.cues[k] : k \in 1..Len(g.cues)}

\* C8: a new group strictly inside the first group g ending after start
\* (beyond the tolerance on both sides) replaces g wholesale
C8_InteriorReplace ==
  [][\A i \in 1..Len(cuesBuffer) :
       (/\ call'.kind = "insert"
        /\ i = FirstAfter(cuesBuffer, call'.start)
        /\ call'.start > cuesBuffer[i].start
        /\ ~areNearlyEqual(call'.start, cuesBuffer[i].start)
        /\ call'.end < cuesBuffer[i].end
        /\ ~areNearlyEqual(call'.end, cuesBuffer[i].end))
       => /\ cuesBuffer' = [cuesBuffer EXCEPT ![i] = NewGroup(call')]
          /\ \A t \in Times : get(cuesBuffer', t) \notin CuesIn(cuesBuffer[i])]_vars

C8_Witness ==
  /\ call.kind = "insert"
  /\ call.branch = "inside"
  /\ Len(cuesBuffer) >= 2

(***************************************************************************)
(* Properties of the index helpers.                                        *)
(***************************************************************************)

\* C9: with timescale 1, startNumber 1 and a window starting at 0, the
\* segments are numbered 1, 2, 3, ... and the k-th has time (k - 1) * duration;
\* duration 4 and window 0..10 give three segments
C9_TemplateTimes ==
  (/\ twindow.called
   /\ tindex.timescale = 1
   /\ tindex.hasStartNumber /\ tindex.startNumber = 1
   /\ twindow.up = 0)
  => /\ \A k \in 1..Len(segments) :
          /\ segments[k].number = k
          /\ segments[k].time = (k - 1) * tindex.duration
     /\ (tindex.duration = 4 /\ twindow.to = 10) => Len(segments) = 3

\* the element C10 describes: time and duration times idx.timescale over
\* meta.timescale
ScaledElement(index, meta) ==
  [ts |-> Frac(meta.time * index.timescale, meta.timescale),
   d |-> Frac(meta.duration * index.timescale, meta.timescale),
   r |-> meta.count,
   range |-> meta.range]

\* C10: _addSegmentInfos appends exactly one element, the segment infos
\* rescaled by idx.timescale / meta.timescale, keeps the earlier elements and
\* the timescale, and returns true
C10_BaseAppend ==
  [][/\ bindex'.timeline = Append(bindex.timeline, ScaledElement(bindex, bcall'))
     /\ bcall'.timescale = bindex.timescale =>
          /\ bindex'.timeline[Len(bindex'.timeline)].ts = <<bcall'.time, 1>>
          /\ bindex'.timeline[Len(bindex'.timeline)].d = <<bcall'.duration, 1>>
     /\ bindex'.timescale = bindex.timescale
     /\ added']_vars

C10_Witness ==
  /\ added
  /\ bindex.timescale = 1
  /\ Len(bindex.timeline) = 2
  /\ bcall = [time |-> 0, duration |-> 4, timescale |-> 2, count |-> 0,
              range |-> <<>>]
  /\ bindex.timeline[2] = [ts |-> <<0, 1>>, d |-> <<2, 1>>, r |-> 0,
                           range |-> <<>>]

(***************************************************************************)
(* Properties of the choice of the index helpers.                          *)
(***************************************************************************)
Unregistered(l) ==
  l.indexType \notin RegisteredTypes(features) \cup InheritedNames

Window == normalizeRange(tindex, twindow.up, twindow.to)

\* C12: for every duration >= 1 and every startNumber, a window whose
\* normalised upper bound is below its normalised lower bound gives the
\* empty sequence of segments.
C12_InvertedWindowEmpty ==
  (twindow.called /\ Window.to < Window.up) => segments = <<>>

C12_Witness ==
  /\ twindow.called
  /\ Window.to < Window.up
  /\ tindex.duration > 1
  /\ tindex.hasStartNumber
  /\ segments = <<>>

(***************************************************************************)
(* Properties of the cues held by the text buffer.                         *)
(***************************************************************************)
StoredCues(buf) == UNION {CuesIn(buf[i]) : i \in 1..Len(buf)}

\* C13: no insert and no get changes the start, end or payload of a cue
\* given to insert: the cues held after a step are cues held before it or
\* cues of the array just given, with their fields as given; and a cue
\* returned by get is one of the cues held, hence one given to insert.
C13_CuesUntouched ==
  [][/\ StoredCues(cuesBuffer') \subseteq
          StoredCues(cuesBuffer) \cup CuesIn(call')
     /\ call'.kind = "get" =>
          call'.cue \in StoredCues(cuesBuffer) \cup {undefined}]_vars

\* a group trimmed at its head still holds a cue as it was given, and get
\* has just returned it
C13_Witness ==
  /\ call.kind = "get"
  /\ call.cue # undefined
  /\ \E i \in 1..Len(cuesBuffer) :
       /\ call.cue \in CuesIn(cuesBuffer[i])
       /\ call.cue.start < cuesBuffer[i].start

(***************************************************************************)
(* Properties of the groups of the text buffer.                            *)
(***************************************************************************)
\* C14: after any sequence of inserts with start < end, every stored group
\* has start <= end.
C14_GroupWellFormed ==
  \A i \in 1..Len(cuesBuffer) : cuesBuffer[i].start <= cuesBuffer[i].end

\* get answers alike on both stores at every time of [lo, hi)
SameGetBetween(buf1, buf2, lo, hi) ==
  \A t \in lo..(hi - 1) : get(buf1, t) = get(buf2, t)

\* C15: when the first group g ending after start begins more than the
\* tolerance before start and the new end is beyond or nearly equal to
\* g.end, then after the insert g.end = start, the new group is right
\* after g, the cues of g are exactly its previous cues starting before
\* start, and get(t) is as before for every t in [g.start, start).
C15_TailTrim ==
  [][\A i \in 1..Len(cuesBuffer) :
       LET g == cuesBuffer[i]
           c == call'
       IN (/\ c.kind = "insert"
           /\ i = FirstAfter(cuesBuffer, c.start)
           /\ c.start > g.start
           /\ ~areNearlyEqual(c.start, g.start)
           /\ (c.end > g.end \/ areNearlyEqual(c.end, g.end)))
          => /\ Len(cuesBuffer') > i
             /\ cuesBuffer'[i].end = c.start
             /\ cuesBuffer'[i + 1] = NewGroup(c)
             /\ cuesBuffer'[i].cues =
                  SelectSeq(g.cues, LAMBDA x : x.start < c.start)
             /\ SameGetBetween(cuesBuffer, cuesBuffer', g.start, c.start)]_vars

\* C16: when the first group g ending after start begins after start,
\* beyond the tolerance, and the new end is within the tolerance of
\* g.start, on either side of it, the new group is placed right before g
\* and g.start becomes the new end.
C16_TouchingSnap ==
  [][\A i \in 1..Len(cuesBuffer) :
       LET g == cuesBuffer[i]
           c == call'
       IN (/\ c.kind = "insert"
           /\ i = FirstAfter(cuesBuffer, c.start)
           /\ c.start < g.start
           /\ ~areNearlyEqual(c.start, g.start)
           /\ areNearlyEqual(c.end, g.start))
          => /\ Len(cuesBuffer') = Len(cuesBuffer) + 1
             /\ cuesBuffer'[i] = NewGroup(c)
             /\ cuesBuffer'[i + 1].start = c.end
             /\ cuesBuffer'[i + 1].end = g.end]_vars

\* The groups dropped by an insert whose start is nearly equal to the start
\* of the first group g ending after it and whose end is beyond g.end and
\* the tolerance: g and the groups after it up to the first one at which
\* the drop stops. With nearStops the drop stops at a group whose end is
\* nearly equal to the new end or exceeds it, without it only at a group
\* whose end is not below the new end. A stopping group with an end
\* nearly equal is replaced, another one is kept with its end; the groups
\* after it are unchanged; with no stopping group the new group is last.
CoveredDrop(nearStops) ==
  \A i \in 1..Len(cuesBuffer) :
    LET g == cuesBuffer[i]
        c == call'
        n == Len(cuesBuffer)
        stops == {j \in (i + 1)..n :
                    \/ cuesBuffer[j].end >= c.end
                    \/ nearStops /\ areNearlyEqual(c.end, cuesBuffer[j].end)}
    IN (/\ c.kind = "insert"
        /\ i = FirstAfter(cuesBuffer, c.start)
        /\ areNearlyEqual(c.start, g.start)
        /\ c.end > g.end
        /\ ~areNearlyEqual(c.end, g.end))
       => IF stops = {}
          THEN cuesBuffer' = Append(SubSeq(cuesBuffer, 1, i - 1), NewGroup(c))
          ELSE LET b == CHOOSE k \in stops : \A j \in stops : k <= j
               IN IF areNearlyEqual(c.end, cuesBuffer[b].end)
                  THEN cuesBuffer' =
                         Append(SubSeq(cuesBuffer, 1, i - 1), NewGroup(c))
                           \o SubSeq(cuesBuffer, b + 1, n)
                  ELSE /\ Len(cuesBuffer') = n - (b - i) + 1
                       /\ SubSeq(cuesBuffer', 1, i) =
                            Append(SubSeq(cuesBuffer, 1, i - 1), NewGroup(c))
                       /\ cuesBuffer'[i + 1].end = cuesBuffer[b].end
                       /\ SubSeq(cuesBuffer', i + 2, Len(cuesBuffer')) =
                            SubSeq(cuesBuffer, b + 1, n)

\* C17 as stated: the drop takes g and the following groups only while
\* their end is below the new end and not nearly equal to it, and stops at
\* the first group whose end is nearly equal to the new end or exceeds it.
C17_DropUntilNear == [][CoveredDrop(TRUE)]_vars

\* C17 amended: the drop takes g and every following group whose end is
\* below the new end, nearly equal or not, and stops at the first group
\* whose end is not below the new end; that group is replaced when its end
\* is nearly equal and the groups after it are unchanged; with no group
\* left the new group is last.
C17_DropWhileBelow == [][CoveredDrop(FALSE)]_vars

\* two groups were dropped and the next one, ending nearly at the new end,
\* was replaced
C17_Witness ==
  /\ call.kind = "insert"
  /\ call.branch = "beyondSame"
  /\ call.before - Len(cuesBuffer) >= 2

\* The index in cuesBuffer of the group whose start the insert c moves to
\* c.end with trimming, i being the first group ending after c.start; 0
\* when the insert is of another case. The three cases: start nearly equal
\* and end inside g; start nearly equal, end beyond g and a later group
\* ending beyond c.end; start before g and end inside g.
HeadTrimmed(i, c) ==
  LET g == cuesBuffer[i]
      stops == {j \in (i + 1)..Len(cuesBuffer) : cuesBuffer[j].end >= c.end}
  IN IF areNearlyEqual(c.start, g.start)
     THEN IF areNearlyEqual(c.end, g.end) THEN 0
          ELSE IF c.end < g.end THEN i
          ELSE IF stops = {} THEN 0
          ELSE LET b == CHOOSE k \in stops : \A j \in stops : k <= j
               IN IF areNearlyEqual(c.end, cuesBuffer[b].end) THEN 0 ELSE b
     ELSE IF c.start < g.start
     THEN IF c.end < g.start \/ areNearlyEqual(c.end, g.start) THEN 0 ELSE i
     ELSE 0

\* C18: in each of the three cases in which an insert moves the start of
\* an existing group to `end` with trimming, the cues of that group are
\* afterwards exactly its previous cues whose start is not before `end`.
C18_HeadTrim ==
  [][\A i \in 1..Len(cuesBuffer) :
       LET c == call'
       IN (/\ c.kind = "insert"
           /\ i = FirstAfter(cuesBuffer, c.start)
           /\ HeadTrimmed(i, c) # 0)
          => /\ Len(cuesBuffer') > i
             /\ cuesBuffer'[i + 1].start = c.end
             /\ cuesBuffer'[i + 1].cues =
                  SelectSeq(cuesBuffer[HeadTrimmed(i, c)].cues,
                            LAMBDA x : x.start >= c.end)]_vars

(***************************************************************************)
(* Frame of an insert.                                                     *)
(***************************************************************************)
\* the insert c is of the interior case of C8: strictly inside the first
\* group ending after c.start, beyond the tolerance on both sides
InteriorCase(c) ==
  LET i == FirstAfter(cuesBuffer, c.start)
  IN /\ i # 0
     /\ c.start > cuesBuffer[i].start
     /\ ~areNearlyEqual(c.start, cuesBuffer[i].start)
     /\ c.end < cuesBuffer[i].end
     /\ ~areNearlyEqual(c.end, cuesBuffer[i].end)

\* the times t of the model with t >= end + 0.2 s: (t - end) / 8 >= 2 / 10
FarAfter(end) ==
  {t \in Times \cup TimesWide : (t - end) * 10 >= MAX_DELTA_BUFFER_TIME * 8}

\* C19: an insert which is not of the interior case leaves get(t) as it
\* was for every t >= end + 0.2 s.
C19_FrameAfterEnd ==
  [][(call'.kind = "insert" /\ ~InteriorCase(call'))
       => \A t \in FarAfter(call'.end) :
            get(cuesBuffer', t) = get(cuesBuffer, t)]_vars

\* the numbers of the segments returned, in order
SegmentNumbers == [k \in 1..Len(segments) |-> segments[k].number]

\* floor(t / duration) + startNumber, 1 standing for an absent startNumber
NumberAt(t) ==
  (t \div tindex.duration) +
    (IF tindex.hasStartNumber THEN tindex.startNumber ELSE 1)

\* C20: the numbers of the segments returned for a window are consecutive
\* and include floor(t / duration) + startNumber for every time t of the
\* normalised window, from <= t <= to.
C20_WindowCovered ==
  twindow.called =>
    /\ \A k \in 1..(Len(segments) - 1) :
         SegmentNumbers[k + 1] = SegmentNumbers[k] + 1
    /\ \A t \in Window.up..Window.to :
         \E k \in 1..Len(segments) : SegmentNumbers[k] = NumberAt(t)

(***************************************************************************)
(* Properties of the timeline of a SegmentBase index.                      *)
(***************************************************************************)
\* a <= b for two numbers given as pairs <<numerator, denominator>>
FracLeq(a, b) == a[1] * b[2] <= b[1] * a[2]

\* the end of the run of a timeline element: ts + (r + 1) * d
RunEnd(e) ==
  Frac(e.ts[1] * e.d[2] + (e.r + 1) * e.d[1] * e.ts[2], e.ts[2] * e.d[2])

\* C21: after any sequence of _addSegmentInfos calls on an index whose
\* timeline was ordered, the timeline is ordered: ascending by ts, and no
\* element's run goes beyond the ts of the next element.
C21_TimelineOrdered ==
  \A k \in 1..(Len(bindex.timeline) - 1) :
    /\ FracLeq(bindex.timeline[k].ts, bindex.timeline[k + 1].ts)
    /\ FracLeq(RunEnd(bindex.timeline[k]), bindex.timeline[k + 1].ts)

(***************************************************************************)
(* Properties of the source buffer of native text tracks.                  *)
(***************************************************************************)
\* C22: an _append whose end is defined and not after its start adds no
\* cue to the text track, removes none and leaves the buffered ranges as
\* they were, in any state of the source buffer; an _append which changes
\* the track or the buffered ranges has its end after its start, or an
\* undefined end.
C22_DegenerateAppendNoOp ==
  [][ncall'.kind = "append" =>
       /\ (ncall'.endKind = "number" /\ ncall'.end - ncall'.start <= 0)
            => (track' = track /\ buffered' = buffered)
       /\ (track' # track \/ buffered' # buffered)
            => \/ ncall'.endKind = "undefined"
               \/ ncall'.endKind = "number" /\ ncall'.end > ncall'.start]_vars

\* an _append of two parsed cues with its end at its start, on a track
\* holding cues and with buffered ranges
C22_Witness ==
  /\ ncall.kind = "append"
  /\ ncall.endKind = "number"
  /\ ncall.end = ncall.start
  /\ ncall.parsed = 2
  /\ ~ncall.threw
  /\ track.live
  /\ Len(track.cues) = 1
  /\ buffered # {}

====
